---- MODULE Spec2Model ----
(***************************************************************************)
(* Block Blast (Aerse/seed-block-blast): the puzzle engine of class Game   *)
(* and the move search of class GameAI, as a state machine.                *)
(*                                                                         *)
(* One action per handler of the program: the start button, the settings   *)
(* (pause) button, the pause screen's continue and home buttons, the       *)
(* game-over menu's home button, the AI button, a shape's pointerdown      *)
(* (onDragStart), the stage's pointerup (onDragEnd), the end of a          *)
(* line-clear timeline, and the resumption of an AI turn after its delay.  *)
(* A handler is enabled when the object that carries it exists and is      *)
(* visible as the program's own code leaves it (show/hide, addChild,       *)
(* removeChildren) and its early returns let it through.                   *)
(*                                                                         *)
(* Rows and columns are numbered from 0 as in the source; a shape matrix   *)
(* is a sequence of rows, so matrix[r][c] of the source is                 *)
(* blocks[r + 1][c + 1] here.                                              *)
(***************************************************************************)
EXTENDS Integers, Sequences, FiniteSets, TLC

(***************************************************************************)
(* Bounds of the model.                                                    *)
(***************************************************************************)
\* Side of the board.  The program's GRID_SIZE is 8; the model keeps every
\* loop bound symbolic in GRID_SIZE and explores a smaller board.
GRID_SIZE == 2

\* Number of batches generateNewShapes may produce in one behaviour.
MaxBatches == 2

\* The score a behaviour may reach.
MaxScore == 800

\* Number of AI turns that may be waiting for their delay at once.
MaxPending == 1

\* Number of AI turns that may be waiting at once in the specification of
\* the AI turn loops.
MaxLoops == 2

\* Number of line-clear animations that may be running at once.
MaxTimelines == 1

\* Number of clicks on the settings, continue, home and AI buttons in one
\* behaviour.
MaxClicks == 3

(***************************************************************************)
(* Program constants.                                                      *)
(***************************************************************************)
BLOCK_COLORS == <<16711680, 65280, 255, 16776960, 16711935, 65535, 16753920>>

SHAPES_Padded ==
  << << <<TRUE>> >>,
     << <<TRUE, TRUE>> >>,
     << <<TRUE>>, <<TRUE>> >>,
     << <<TRUE>>, <<TRUE>>, <<TRUE>>, <<TRUE>> >>,
     << <<TRUE, FALSE>>, <<TRUE, FALSE>>, <<TRUE, TRUE>>, <<FALSE, FALSE>> >>,
     << <<FALSE, TRUE>>, <<FALSE, TRUE>>, <<TRUE, TRUE>> >>,
     << <<TRUE, TRUE>>, <<TRUE, TRUE>> >>,
     << <<FALSE, TRUE, TRUE>>, <<TRUE, TRUE, FALSE>> >>,
     << <<TRUE, TRUE, TRUE>>, <<FALSE, TRUE, FALSE>> >>,
     << <<TRUE, TRUE, FALSE>>, <<FALSE, TRUE, TRUE>> >> >>

SHAPES ==
  << << <<TRUE>> >>,
     << <<TRUE, TRUE>> >>,
     << <<TRUE>>, <<TRUE>> >>,
     << <<TRUE>>, <<TRUE>>, <<TRUE>>, <<TRUE>> >>,
     << <<TRUE, FALSE>>, <<TRUE, FALSE>>, <<TRUE, TRUE>> >>,
     << <<FALSE, TRUE>>, <<FALSE, TRUE>>, <<TRUE, TRUE>> >>,
     << <<TRUE, TRUE>>, <<TRUE, TRUE>> >>,
     << <<FALSE, TRUE, TRUE>>, <<TRUE, TRUE, FALSE>> >>,
     << <<TRUE, TRUE, TRUE>>, <<FALSE, TRUE, FALSE>> >>,
     << <<TRUE, TRUE, FALSE>>, <<FALSE, TRUE, TRUE>> >> >>

\* What the Math.random() draws of generateNewShapes may return.  A draw for
\* one shape is <<shapeIndex, colorIndex, rotations>>, indexes from 0 as in
\* the source; a batch takes three draws.  The model explores these batches:
\* a domino turned upright and two single blocks; a single block and two
\* squares.
Single == <<0, 0, 0>>
Upright == <<1, 1, 1>>
Square == <<6, 2, 0>>
Batches == { <<Upright, Single, Single>>,
             <<Single, Square, Square>> }

Rows == 0 .. GRID_SIZE - 1
Cols == 0 .. GRID_SIZE - 1

(***************************************************************************)
(* Shapes.                                                                 *)
(***************************************************************************)
rotateShape_CounterClockwise(shape) ==
  LET rows == Len(shape)
      cols == Len(shape[1])
  IN  [i \in 1 .. cols |-> [j \in 1 .. rows |-> shape[j][cols + 1 - i]]]

\* rotated[col][rows - 1 - row] = shape[row][col]
rotateShape(shape) ==
  LET rows == Len(shape)
      cols == Len(shape[1])
  IN  [i \in 1 .. cols |-> [j \in 1 .. rows |-> shape[rows + 1 - j][i]]]

RECURSIVE Rotations(_, _)
Rotations(shape, n) ==
  IF n = 0 THEN shape ELSE Rotations(rotateShape(shape), n - 1)

Height(shape) == Len(shape.blocks)
Width(shape) == Len(shape.blocks[1])
BlockAt(shape, r, c) == shape.blocks[r + 1][c + 1]

\* The cells of the board a shape covers when its corner is at (row, col).
ShapeCells(row, col, shape) ==
  { <<row + r, col + c>> : <<r, c>> \in
      { rc \in (0 .. Height(shape) - 1) \X (0 .. Width(shape) - 1) :
          BlockAt(shape, rc[1], rc[2]) } }

(***************************************************************************)
(* Board.                                                                  *)
(***************************************************************************)
EmptyCell == [isEmpty |-> TRUE, color |-> 0]

createEmptyBoard == [r \in Rows |-> [c \in Cols |-> EmptyCell]]

canPlaceShape_OffByOne(board, startRow, startCol, shape) ==
  IF \/ startRow < 0
     \/ startRow + Height(shape) >= GRID_SIZE
     \/ startCol < 0
     \/ startCol + Width(shape) > GRID_SIZE
  THEN FALSE
  ELSE \A r \in 0 .. Height(shape) - 1 : \A c \in 0 .. Width(shape) - 1 :
         ~(BlockAt(shape, r, c) /\ ~board[startRow + r][startCol + c].isEmpty)

canPlaceShape(board, startRow, startCol, shape) ==
  IF \/ startRow < 0
     \/ startRow + Height(shape) > GRID_SIZE
     \/ startCol < 0
     \/ startCol + Width(shape) > GRID_SIZE
  THEN FALSE
  ELSE \A r \in 0 .. Height(shape) - 1 : \A c \in 0 .. Width(shape) - 1 :
         ~(BlockAt(shape, r, c) /\ ~board[startRow + r][startCol + c].isEmpty)

PlaceBlocks_KeepsColor(board, startRow, startCol, shape) ==
  [r \in Rows |-> [c \in Cols |->
     IF <<r, c>> \in ShapeCells(startRow, startCol, shape)
     THEN [isEmpty |-> FALSE, color |-> board[r][c].color]
     ELSE board[r][c]]]

\* The loop of placeShape: every true cell of the matrix is written, whatever
\* the cell held before.
PlaceBlocks(board, startRow, startCol, shape) ==
  [r \in Rows |-> [c \in Cols |->
     IF <<r, c>> \in ShapeCells(startRow, startCol, shape)
     THEN [isEmpty |-> FALSE, color |-> shape.color]
     ELSE board[r][c]]]

hasValidMoves(board, shapes) ==
  IF Len(shapes) > 0
  THEN \E i \in 1 .. Len(shapes) : \E row \in Rows : \E col \in Cols :
         canPlaceShape(board, row, col, shapes[i])
  ELSE FALSE

FullRows(board) == { r \in Rows : \A c \in Cols : ~board[r][c].isEmpty }
FullCols(board) == { c \in Cols : \A r \in Rows : ~board[r][c].isEmpty }

RowMajor == [i \in 1 .. GRID_SIZE * GRID_SIZE |->
               <<(i - 1) \div GRID_SIZE, (i - 1) % GRID_SIZE>>]
ColMajor == [i \in 1 .. GRID_SIZE * GRID_SIZE |->
               <<(i - 1) % GRID_SIZE, (i - 1) \div GRID_SIZE>>]

BlocksToRemove_TwiceAtCrossing(rows, cols) ==
  SelectSeq(RowMajor, LAMBDA p : p[1] \in rows)
    \o SelectSeq(ColMajor, LAMBDA p : p[2] \in cols)

\* blocksToRemove of clearLines: the cells of the rows, row by row, then the
\* cells of the columns that are not in the list yet.
BlocksToRemove(rows, cols) ==
  SelectSeq(RowMajor, LAMBDA p : p[1] \in rows)
    \o SelectSeq(ColMajor, LAMBDA p : p[2] \in cols /\ p[1] \notin rows)

clearBlock_KeepsColor(board, p) ==
  [board EXCEPT ![p[1]][p[2]] = [@ EXCEPT !.isEmpty = TRUE]]

clearBlock(board, p) ==
  [board EXCEPT ![p[1]][p[2]] = [isEmpty |-> TRUE, color |-> 0]]

(***************************************************************************)
(* GameAI: the move search.                                                *)
(***************************************************************************)
\* The board with the shape on it, as booleans (true = filled).
simulatePlacement(board, row, col, shape) ==
  [r \in Rows |-> [c \in Cols |->
     IF <<r, c>> \in ShapeCells(row, col, shape)
     THEN TRUE
     ELSE ~board[r][c].isEmpty]]

\* One scan of findBestMove over a row or a column: line[i] is true for a
\* filled cell.  Yields the number of filled cells and the number of gaps.
RECURSIVE ScanLine(_, _, _, _, _)
ScanLine(line, i, blocks, gaps, lastWasEmpty) ==
  IF i > Len(line)
  THEN [blocks |-> blocks, gaps |-> gaps]
  ELSE IF ~line[i]
       THEN ScanLine(line, i + 1, blocks,
                     IF ~lastWasEmpty /\ blocks > 0 THEN gaps + 1 ELSE gaps,
                     TRUE)
       ELSE ScanLine(line, i + 1, blocks + 1, gaps, FALSE)

RowLine(sim, r) == [i \in 1 .. GRID_SIZE |-> sim[r][i - 1]]
ColLine(sim, c) == [i \in 1 .. GRID_SIZE |-> sim[i - 1][c]]

RECURSIVE SumOver(_, _)
SumOver(f, S) ==
  IF S = {} THEN 0
  ELSE LET x == CHOOSE y \in S : TRUE IN f[x] + SumOver(f, S \ {x})

wouldClearLines_RowsOnly(sim) ==
  Cardinality({ r \in Rows : ScanLine(RowLine(sim, r), 1, 0, 0, FALSE).blocks = GRID_SIZE })

wouldClearLines(sim) ==
  Cardinality({ r \in Rows : ScanLine(RowLine(sim, r), 1, 0, 0, FALSE).blocks = GRID_SIZE })
  + Cardinality({ c \in Cols : ScanLine(ColLine(sim, c), 1, 0, 0, FALSE).blocks = GRID_SIZE })

wouldCreateGaps(sim) ==
  SumOver([r \in Rows |-> ScanLine(RowLine(sim, r), 1, 0, 0, FALSE).gaps], Rows)
  + SumOver([c \in Cols |-> ScanLine(ColLine(sim, c), 1, 0, 0, FALSE).gaps], Cols)

Directions == { <<-1, 0>>, <<1, 0>>, <<0, -1>>, <<0, 1>> }

InBoard(r, c) == r >= 0 /\ r < GRID_SIZE /\ c >= 0 /\ c < GRID_SIZE

\* Pairs (placed cell, direction) whose neighbour is a filled cell of the board.
touchingBlocks(board, row, col, shape) ==
  Cardinality({ pd \in ShapeCells(row, col, shape) \X Directions :
     /\ InBoard(pd[1][1] + pd[2][1], pd[1][2] + pd[2][2])
     /\ ~board[pd[1][1] + pd[2][1]][pd[1][2] + pd[2][2]].isEmpty })

\* Pairs (placed cell, direction) whose neighbour lies outside the board.
touchingEdges(row, col, shape) ==
  Cardinality({ pd \in ShapeCells(row, col, shape) \X Directions :
     ~InBoard(pd[1][1] + pd[2][1], pd[1][2] + pd[2][2]) })

MoveScore_NoLineTerms(board, row, col, shape) ==
  LET sim == simulatePlacement(board, row, col, shape)
  IN  - wouldCreateGaps(sim) * 50
      + touchingBlocks(board, row, col, shape) * 100
      - touchingEdges(row, col, shape) * 30
      + (GRID_SIZE - row) * 20

MoveScore_NoBonus(board, row, col, shape) ==
  LET sim == simulatePlacement(board, row, col, shape)
  IN  wouldClearLines(sim) * 1000
      - wouldCreateGaps(sim) * 50
      + touchingBlocks(board, row, col, shape) * 100
      - touchingEdges(row, col, shape) * 30
      + (GRID_SIZE - row) * 20

\* The score findBestMove gives to a valid candidate.
MoveScore(board, row, col, shape) ==
  LET sim == simulatePlacement(board, row, col, shape)
      lines == wouldClearLines(sim)
  IN  lines * 1000
      - wouldCreateGaps(sim) * 50
      + touchingBlocks(board, row, col, shape) * 100
      - touchingEdges(row, col, shape) * 30
      + (GRID_SIZE - row) * 20
      + (IF lines > 0 THEN 2000 ELSE 0)

BoardAfterSimulate_InPlace(board, row, col, shape) ==
  PlaceBlocks(board, row, col, shape)

\* The game board after simulatePlacement: the function fills an array of
\* its own with the booleans of the board and writes the shape into that
\* array; the board of the game is only read.
BoardAfterSimulate(board, row, col, shape) == board

\* The game board after the double loop of findBestMove from the i-th
\* position on: simulatePlacement is called for every position at which
\* canPlaceShape holds.
RECURSIVE BoardAfterScan(_, _, _)
BoardAfterScan(board, shape, i) ==
  IF i > Len(RowMajor) THEN board
  ELSE LET row == RowMajor[i][1]
           col == RowMajor[i][2]
       IN  IF canPlaceShape(board, row, col, shape)
           THEN BoardAfterScan(BoardAfterSimulate(board, row, col, shape),
                               shape, i + 1)
           ELSE BoardAfterScan(board, shape, i + 1)

\* The game board after the loop of executeMove over the shapes from the
\* i-th on.
RECURSIVE BoardAfterSearch(_, _, _)
BoardAfterSearch(board, shapes, i) ==
  IF i > Len(shapes) THEN board
  ELSE BoardAfterSearch(BoardAfterScan(board, shapes[i], 1), shapes, i + 1)

\* A move: valid = FALSE stands for the score -Infinity.
NoMove == [row |-> -1, col |-> -1, score |-> 0, valid |-> FALSE]

ScoreGreater_OrEqual(a, b) == a.valid /\ (~b.valid \/ a.score >= b.score)

ScoreGreater(a, b) == a.valid /\ (~b.valid \/ a.score > b.score)

\* The double loop of findBestMove over the positions from the i-th on, in
\* row-major order, with the best candidate so far.
RECURSIVE ScanMoves(_, _, _, _)
ScanMoves(board, shape, i, best) ==
  IF i > Len(RowMajor) THEN best
  ELSE LET row == RowMajor[i][1]
           col == RowMajor[i][2]
       IN  IF canPlaceShape(board, row, col, shape)
           THEN LET cand == [row |-> row, col |-> col,
                             score |-> MoveScore(board, row, col, shape),
                             valid |-> TRUE]
                IN  ScanMoves(board, shape, i + 1,
                              IF ScoreGreater(cand, best) THEN cand ELSE best)
           ELSE ScanMoves(board, shape, i + 1, best)

findBestMove_NoSentinel(board, shape) ==
  LET best == ScanMoves(board, shape, 1, NoMove)
  IN  IF best.valid THEN best
      ELSE [row |-> 0, col |-> 0, score |-> 0, valid |-> TRUE]

\* bestRow and bestCol start at 0 and foundValidMove decides the sentinel.
findBestMove(board, shape) == ScanMoves(board, shape, 1, NoMove)

\* The loop of executeMove over the shapes from the i-th on: the best move
\* so far and the index of its shape (0 = bestShape is null).
RECURSIVE ScanShapes(_, _, _, _, _)
ScanShapes(board, shapes, i, bestMove, bestShape) ==
  IF i > Len(shapes) THEN [move |-> bestMove, shape |-> bestShape]
  ELSE LET move == findBestMove(board, shapes[i])
       IN  IF ScoreGreater(move, bestMove)
           THEN ScanShapes(board, shapes, i + 1, move, i)
           ELSE ScanShapes(board, shapes, i + 1, bestMove, bestShape)

SearchMove_ZeroStart(board, shapes) ==
  ScanShapes(board, shapes, 1,
             [row |-> -1, col |-> -1, score |-> 0, valid |-> TRUE], 0)

\* The synchronous part of executeMove, up to its first await.
SearchMove(board, shapes) == ScanShapes(board, shapes, 1, NoMove, 0)

(***************************************************************************)
(* State.                                                                  *)
(***************************************************************************)
VARIABLES
  gameBoard,        \* Game.gameBoard: row -> column -> [isEmpty, color]
  score,            \* state.score
  isGameOver,       \* state.isGameOver
  shapes,           \* state.shapes: the batch, a sequence of shapes
  previousAIState,  \* state.previousAIState
  isAIEnabled,      \* state.isAIEnabled
  currentState,     \* state.currentState
  startVisible,     \* the start screen (and its start button) is visible
  pauseVisible,     \* the pause screen (continue, home) is visible
  uiButtons,        \* the settings button and the AI button are in uiContainer
  gameOverMenu,     \* a game-over menu (with its home button) is in menuContainer
  timelines,        \* the running line-clear animations
  aiPending,        \* the AI turns suspended in executeMove, oldest first
  hung,             \* runAI re-enters itself without end: no handler runs again
  batchNo,          \* number of batches generated so far
  clicks,           \* number of clicks on the four kinds of buttons so far
  placedShapesCount, \* state.placedShapesCount: written by the legacy engine only
  ev                \* what the last handler did (history, for the properties)

vars == <<gameBoard, score, isGameOver, shapes, previousAIState, isAIEnabled,
          currentState, startVisible, pauseVisible, uiButtons, gameOverMenu,
          timelines, aiPending, hung, batchNo, clicks, placedShapesCount, ev>>

(***************************************************************************)
(* A shape of the batch is [blocks, color, width, height, slot, dragging]:  *)
(* slot is its identity within the batch (indexOf and find compare          *)
(* objects), dragging is container.dragging.  A suspended AI turn is [blocks, color, slot,     *)
(* row, col]: slot is 0 once the shape object has left state.shapes.        *)
(* A timeline group is the timelines one handler created, which run at the  *)
(* same instants: [lines, stale], with lines the blocksToRemove lists and   *)
(* stale = the blocks belong to a board that startGame has since replaced.  *)
(* The tween callbacks of a timeline are 20 ms apart; the model runs them   *)
(* in one step, with the timeline's final checkGameOver.                    *)
(*                                                                         *)
(* The handlers are written as functions on a record s of the state, with   *)
(* three more fields: newLines (the lists clearLines built in this         *)
(* handler), gameOverCalls and runAICalls (the calls of gameOver and of    *)
(* runAI in this handler).                                                 *)
(***************************************************************************)
Cur ==
  [ board |-> gameBoard, score |-> score, isGameOver |-> isGameOver,
    shapes |-> shapes, previousAIState |-> previousAIState,
    isAIEnabled |-> isAIEnabled, currentState |-> currentState,
    startVisible |-> startVisible, pauseVisible |-> pauseVisible,
    uiButtons |-> uiButtons, gameOverMenu |-> gameOverMenu,
    timelines |-> timelines, aiPending |-> aiPending, hung |-> hung,
    batchNo |-> batchNo, placedShapesCount |-> placedShapesCount,
    newLines |-> <<>>, gameOverCalls |-> 0, runAICalls |-> 0 ]

\* The fresh state object of the constructor and of resetGame.
FreshState(s) ==
  [s EXCEPT !.score = 0, !.isGameOver = FALSE, !.shapes = <<>>,
            !.previousAIState = FALSE, !.isAIEnabled = FALSE,
            !.currentState = "START"]

gameOver(s) ==
  [s EXCEPT !.isGameOver = TRUE, !.currentState = "GAME_OVER",
            !.gameOverMenu = TRUE, !.gameOverCalls = @ + 1]

checkGameOver(s) ==
  IF ~hasValidMoves(s.board, s.shapes) THEN gameOver(s) ELSE s

\* The blocks are cleared later, by the timeline.
clearLines(s, rows, cols) ==
  [s EXCEPT !.newLines = Append(@, BlocksToRemove(rows, cols))]

updateScore(s, linesCleared) ==
  [s EXCEPT !.score = @ + linesCleared * 100]

checkLines_RowsOnly(s) ==
  LET rowsToRemove == FullRows(s.board)
      s1 == IF rowsToRemove # {}
            THEN updateScore(clearLines(s, rowsToRemove, {}),
                             Cardinality(rowsToRemove))
            ELSE s
  IN  IF Len(s1.shapes) = 1 /\ ~hasValidMoves(s1.board, s1.shapes)
      THEN gameOver(s1)
      ELSE s1

checkLines(s) ==
  LET rowsToRemove == FullRows(s.board)
      colsToRemove == FullCols(s.board)
      s1 == IF rowsToRemove # {} \/ colsToRemove # {}
            THEN updateScore(clearLines(s, rowsToRemove, colsToRemove),
                             Cardinality(rowsToRemove) + Cardinality(colsToRemove))
            ELSE s
  IN  IF Len(s1.shapes) = 1 /\ ~hasValidMoves(s1.board, s1.shapes)
      THEN gameOver(s1)
      ELSE s1

placeShape(s, startRow, startCol, shape) ==
  checkLines([s EXCEPT !.board = PlaceBlocks(s.board, startRow, startCol, shape)])

\* The batch built from three draws g[1], g[2], g[3].
NewShape_SwapsDimensions(i, draw) ==
  LET shape == Rotations(SHAPES[draw[1] + 1], draw[3])
  IN  [ blocks |-> shape,
        color |-> BLOCK_COLORS[draw[2] + 1],
        width |-> Len(shape),
        height |-> Len(shape[1]),
        slot |-> i,
        dragging |-> FALSE ]

NewShape(i, draw) ==
  LET shape == Rotations(SHAPES[draw[1] + 1], draw[3])
  IN  [ blocks |-> shape,
        color |-> BLOCK_COLORS[draw[2] + 1],
        width |-> Len(shape[1]),
        height |-> Len(shape),
        slot |-> i,
        dragging |-> FALSE ]

generateNewShapes_MidBatch(s, g) ==
  IF s.isGameOver THEN s
  ELSE IF Len(s.shapes) > 1 THEN s
  ELSE LET s1 == [s EXCEPT !.shapes = [i \in 1 .. 3 |-> NewShape(i, g[i])],
                           !.batchNo = @ + 1]
       IN  IF ~hasValidMoves(s1.board, s1.shapes) THEN gameOver(s1) ELSE s1

generateNewShapes_NoCheck(s, g) ==
  IF s.isGameOver THEN s
  ELSE IF Len(s.shapes) > 0 THEN s
  ELSE [s EXCEPT !.shapes = [i \in 1 .. 3 |-> NewShape(i, g[i])],
                 !.batchNo = @ + 1]

generateNewShapes(s, g) ==
  IF s.isGameOver THEN s
  ELSE IF Len(s.shapes) > 0 THEN s
  ELSE LET s1 == [s EXCEPT !.shapes = [i \in 1 .. 3 |-> NewShape(i, g[i])],
                           !.batchNo = @ + 1]
       IN  IF ~hasValidMoves(s1.board, s1.shapes) THEN gameOver(s1) ELSE s1

\* shapes.splice(index, 1) for the shape object with this slot; the suspended
\* AI turns that hold the object now hold a shape outside the batch.
RemoveShape(s, slot) ==
  [s EXCEPT !.shapes = SelectSeq(@, LAMBDA x : x.slot # slot),
            !.aiPending = [i \in 1 .. Len(@) |->
               IF @[i].slot = slot THEN [@[i] EXCEPT !.slot = 0] ELSE @[i]]]

\* runAI from its entry to the point where it suspends, returns or spins.
RECURSIVE runAI(_, _)
runAI(s0, g) ==
  LET s == [s0 EXCEPT !.runAICalls = @ + 1] IN
  IF ~s.isAIEnabled \/ s.isGameOver \/ s.currentState # "PLAYING" THEN s
  ELSE LET found == SearchMove(s.board, s.shapes)
       IN  IF found.shape # 0 /\ found.move.valid
           THEN LET sh == s.shapes[found.shape]
                IN  [s EXCEPT !.aiPending = Append(@,
                       [ blocks |-> sh.blocks, color |-> sh.color, slot |-> sh.slot,
                         row |-> found.move.row, col |-> found.move.col ])]
           ELSE LET s1 == generateNewShapes(s, g)
                IN  IF s1 = s
                    THEN [s EXCEPT !.hung = TRUE]
                    ELSE runAI(s1, g)

\* resetGame: the board array is not touched, nor are the timelines and the
\* suspended AI turns.
resetGame(s) ==
  [FreshState(s) EXCEPT
     !.uiButtons = FALSE, !.startVisible = TRUE,
     !.aiPending = [i \in 1 .. Len(@) |-> [@[i] EXCEPT !.slot = 0]]]

startGame(s, g) ==
  generateNewShapes(
    [s EXCEPT !.currentState = "PLAYING", !.startVisible = FALSE,
              !.board = createEmptyBoard, !.uiButtons = TRUE,
              !.timelines = [i \in 1 .. Len(@) |-> [@[i] EXCEPT !.stale = TRUE]]],
    g)

\* The click handler of the settings button.
pause(s) ==
  [s EXCEPT !.previousAIState = s.isAIEnabled, !.isAIEnabled = FALSE,
            !.currentState = "PAUSED", !.pauseVisible = TRUE]

onContinue_KeepsAIOff(s, g) ==
  [s EXCEPT !.pauseVisible = FALSE, !.currentState = "PLAYING"]

onContinue(s, g) ==
  LET s1 == [s EXCEPT !.pauseVisible = FALSE, !.currentState = "PLAYING",
                      !.isAIEnabled = s.previousAIState]
  IN  IF s1.isAIEnabled THEN runAI(s1, g) ELSE s1

onHome(s) == resetGame([s EXCEPT !.pauseVisible = FALSE])

\* The click handler of the AI button.
toggleAI(s, g) ==
  LET s1 == [s EXCEPT !.isAIEnabled = ~s.isAIEnabled]
  IN  IF s1.isAIEnabled THEN runAI(s1, g) ELSE s1

DraggedIndex(shs) ==
  IF \E i \in 1 .. Len(shs) : shs[i].dragging
  THEN CHOOSE i \in 1 .. Len(shs) :
         shs[i].dragging /\ \A j \in 1 .. i - 1 : ~shs[j].dragging
  ELSE 0

onDragStart(s, i) == [s EXCEPT !.shapes[i].dragging = TRUE]

\* onDragEnd with the grid position (row, col) of the dragged container.
onDragEnd(s, row, col, g) ==
  LET i == DraggedIndex(s.shapes)
      s1 == [s EXCEPT !.shapes[i].dragging = FALSE]
      draggedShape == s1.shapes[i]
  IN  IF canPlaceShape(s1.board, row, col, draggedShape)
      THEN LET s2 == placeShape(s1, row, col, draggedShape)
               s3 == RemoveShape(s2, draggedShape.slot)
               s4 == checkLines(s3)
           IN  IF Len(s4.shapes) = 0 THEN generateNewShapes(s4, g) ELSE s4
      ELSE s1

\* The callback runAI hands to executeMove, for the suspended turn m.
onPlaceShape(s, m, g) ==
  LET s1 == placeShape(s, m.row, m.col, m)
      s2 == checkLines(s1)
      s3 == IF m.slot # 0 THEN RemoveShape(s2, m.slot) ELSE s2
  IN  IF Len(s3.shapes) = 0 THEN generateNewShapes(s3, g) ELSE s3

\* executeMove after its two awaits, and runAI after its await: the callback,
\* then the next call of runAI.
resumeAI(s, g) ==
  LET m == Head(s.aiPending)
  IN  runAI(onPlaceShape([s EXCEPT !.aiPending = Tail(@)], m, g), g)

\* The onComplete callbacks of the tweens of one timeline, from the p-th on.
RECURSIVE ClearBlocks(_, _, _)
ClearBlocks(board, blocks, p) ==
  IF p > Len(blocks) THEN board
  ELSE ClearBlocks(clearBlock(board, blocks[p]), blocks, p + 1)

\* The timelines of a group, from the i-th on: the blocks are cleared (on the
\* board they belong to), then timeline.call runs checkGameOver.
RECURSIVE RunLines(_, _, _, _)
RunLines(s, lines, i, stale) ==
  IF i > Len(lines) THEN s
  ELSE LET s1 == IF stale THEN s
                 ELSE [s EXCEPT !.board = ClearBlocks(@, lines[i], 1)]
       IN  RunLines(checkGameOver(s1), lines, i + 1, stale)

\* The j-th timeline group runs to its end.
runTimeline(s, j) ==
  LET t == s.timelines[j]
      s1 == RunLines(s, t.lines, 1, t.stale)
  IN  [s1 EXCEPT !.timelines =
         [k \in 1 .. Len(@) - 1 |-> IF k < j THEN @[k] ELSE @[k + 1]]]

(***************************************************************************)
(* Actions.                                                                *)
(***************************************************************************)
\* The batches the random draws can give, and the draw of a handler that
\* generates none.
AnyBatch == CHOOSE b \in Batches : TRUE
NoBatch == <<>>
Draws(generates) == IF generates THEN Batches ELSE {NoBatch}

NoCommit == [committed |-> FALSE, legal |-> FALSE, inBatch |-> FALSE, k |-> 0]

\* A commit of shape sh at (row, col) on the board as it is now: whether
\* canPlaceShape holds, whether the shape object is in the batch, and the
\* number of full lines right after the cells are written.
Commit(row, col, sh, inBatch) ==
  [ committed |-> TRUE,
    legal |-> canPlaceShape(gameBoard, row, col, sh),
    inBatch |-> inBatch,
    k |-> LET b == PlaceBlocks(gameBoard, row, col, sh)
          IN  Cardinality(FullRows(b)) + Cardinality(FullCols(b)) ]

\* The record of a handler: its name, what it committed, the calls of
\* gameOver it made and whether it called runAI.  sincePause is the value
\* isAIEnabled had at the last pause click, made in PLAYING, when no click and
\* no drag came after it ("none" otherwise); afterPause is that value as a
\* continue click found it.
Event(op, s, c) ==
  [ op |-> op,
    committed |-> c.committed,
    legal |-> c.legal,
    inBatch |-> c.inBatch,
    k |-> c.k,
    gameOverCalls |-> s.gameOverCalls,
    ranAI |-> s.runAICalls > 0,
    sincePause |-> IF op = "pause" /\ currentState = "PLAYING"
                   THEN (IF isAIEnabled THEN "on" ELSE "off")
                   ELSE IF op \in {"timeline", "resumeAI"} THEN ev.sincePause
                   ELSE "none",
    afterPause |-> IF op = "continue" THEN ev.sincePause ELSE "none" ]

\* The state a handler leaves, within the bounds of the model and with at
\* most `pending` suspended AI turns.
InstallWithin(s, pending) ==
  LET tls == IF s.newLines = <<>> THEN s.timelines
             ELSE Append(s.timelines,
                         [lines |-> s.newLines, stale |-> FALSE])
  IN  /\ s.batchNo <= MaxBatches
      /\ s.score <= MaxScore
      /\ Len(tls) <= MaxTimelines
      /\ Len(s.aiPending) <= pending
      /\ gameBoard' = s.board
      /\ score' = s.score
      /\ isGameOver' = s.isGameOver
      /\ shapes' = s.shapes
      /\ previousAIState' = s.previousAIState
      /\ isAIEnabled' = s.isAIEnabled
      /\ currentState' = s.currentState
      /\ startVisible' = s.startVisible
      /\ pauseVisible' = s.pauseVisible
      /\ uiButtons' = s.uiButtons
      /\ gameOverMenu' = s.gameOverMenu
      /\ timelines' = tls
      /\ aiPending' = s.aiPending
      /\ hung' = s.hung
      /\ batchNo' = s.batchNo
      /\ placedShapesCount' = s.placedShapesCount

\* The state a handler leaves, within the bounds of the model.
Install(s) == InstallWithin(s, MaxPending)

Clicks == {"pause", "continue", "home", "toggleAI"}

\* One handler: op is its name, result the state it leaves, c its commit;
\* at most `pending` AI turns are suspended after it.
StepWithin(op, result, c, pending) ==
  \E s \in {result} :
    /\ InstallWithin(s, pending)
    /\ clicks' = (IF op \in Clicks THEN clicks + 1 ELSE clicks)
    /\ clicks' <= MaxClicks
    /\ ev' = Event(op, s, c)

\* One handler: op is its name, result the state it leaves, c its commit.
Step(op, result, c) == StepWithin(op, result, c, MaxPending)

Init ==
  /\ gameBoard = <<>>
  /\ score = 0
  /\ isGameOver = FALSE
  /\ shapes = <<>>
  /\ previousAIState = FALSE
  /\ isAIEnabled = FALSE
  /\ currentState = "START"
  /\ startVisible = TRUE
  /\ pauseVisible = FALSE
  /\ uiButtons = FALSE
  /\ gameOverMenu = FALSE
  /\ timelines = <<>>
  /\ aiPending = <<>>
  /\ hung = FALSE
  /\ batchNo = 0
  /\ clicks = 0
  /\ placedShapesCount = 0
  /\ ev = [ op |-> "init",
            committed |-> FALSE, legal |-> FALSE, inBatch |-> FALSE, k |-> 0,
            gameOverCalls |-> 0, ranAI |-> FALSE,
            sincePause |-> "none", afterPause |-> "none" ]

\* StartScreen's start button.
Start ==
  /\ ~hung
  /\ startVisible
  /\ \E g \in Draws(startGame(Cur, AnyBatch).batchNo # batchNo) :
       Step("start", startGame(Cur, g), NoCommit)

\* SettingsButton.
Pause ==
  /\ ~hung
  /\ uiButtons
  /\ Step("pause", pause(Cur), NoCommit)

\* PauseScreen's continue button.
Continue ==
  /\ ~hung
  /\ pauseVisible
  /\ \E g \in Draws(onContinue(Cur, AnyBatch).batchNo # batchNo) :
       Step("continue", onContinue(Cur, g), NoCommit)

\* PauseScreen's home button.
HomeFromPause ==
  /\ ~hung
  /\ pauseVisible
  /\ Step("home", onHome(Cur), NoCommit)

\* The home button of a game-over menu.
HomeFromGameOver ==
  /\ ~hung
  /\ gameOverMenu
  /\ Step("home", resetGame(Cur), NoCommit)

\* The AI button.
ToggleAI ==
  /\ ~hung
  /\ uiButtons
  /\ \E g \in Draws(toggleAI(Cur, AnyBatch).batchNo # batchNo) :
       Step("toggleAI", toggleAI(Cur, g), NoCommit)

\* pointerdown on the container of the i-th shape of the batch, with one
\* pointer: no other shape is being dragged.
DragStart ==
  /\ ~hung
  /\ \E i \in 1 .. Len(shapes) :
       /\ ~isGameOver
       /\ DraggedIndex(shapes) = 0
       /\ Step("dragStart", onDragStart(Cur, i), NoCommit)

\* The grid positions a drop is tried at: every cell, and one outside the
\* board.
DropPositions == (Rows \X Cols) \cup {<<-1, -1>>}

\* pointerup on the stage while a shape is dragged, at any of these positions.
DragEnd ==
  /\ ~hung
  /\ DraggedIndex(shapes) # 0
  /\ \E pos \in DropPositions :
       LET row == pos[1]
           col == pos[2]
           sh == shapes[DraggedIndex(shapes)]
       IN  \E g \in Draws(onDragEnd(Cur, row, col, AnyBatch).batchNo # batchNo) :
             Step("drop", onDragEnd(Cur, row, col, g),
                  IF canPlaceShape(gameBoard, row, col, sh)
                  THEN Commit(row, col, sh, TRUE)
                  ELSE NoCommit)

\* The oldest suspended AI turn resumes after its delay and its animation.
ResumeAI ==
  /\ ~hung
  /\ aiPending # <<>>
  /\ LET m == Head(aiPending)
     IN  \E g \in Draws(resumeAI(Cur, AnyBatch).batchNo # batchNo) :
           Step("resumeAI", resumeAI(Cur, g),
                Commit(m.row, m.col, m, m.slot # 0))

\* A line-clear animation ends.
RunTimeline ==
  /\ ~hung
  /\ \E j \in 1 .. Len(timelines) :
       Step("timeline", runTimeline(Cur, j), NoCommit)

Next ==
  \/ Start
  \/ Pause
  \/ Continue
  \/ HomeFromPause
  \/ HomeFromGameOver
  \/ ToggleAI
  \/ DragStart
  \/ DragEnd
  \/ ResumeAI
  \/ RunTimeline

Spec == Init /\ [][Next]_vars

(***************************************************************************)
(* The AI turn loops: a third specification, with the buttons, the AI      *)
(* turns and the line-clear animations but without drags, in which up to   *)
(* MaxLoops AI turns may be suspended at once.  Without drags no game-over *)
(* menu appears within the bounds, so its home button has no action here.  *)
(***************************************************************************)
LoopStart ==
  /\ ~hung
  /\ startVisible
  /\ \E g \in Draws(startGame(Cur, AnyBatch).batchNo # batchNo) :
       StepWithin("start", startGame(Cur, g), NoCommit, MaxLoops)

LoopPause ==
  /\ ~hung
  /\ uiButtons
  /\ StepWithin("pause", pause(Cur), NoCommit, MaxLoops)

LoopContinue ==
  /\ ~hung
  /\ pauseVisible
  /\ \E g \in Draws(onContinue(Cur, AnyBatch).batchNo # batchNo) :
       StepWithin("continue", onContinue(Cur, g), NoCommit, MaxLoops)

LoopHomeFromPause ==
  /\ ~hung
  /\ pauseVisible
  /\ StepWithin("home", onHome(Cur), NoCommit, MaxLoops)

LoopToggleAI ==
  /\ ~hung
  /\ uiButtons
  /\ \E g \in Draws(toggleAI(Cur, AnyBatch).batchNo # batchNo) :
       StepWithin("toggleAI", toggleAI(Cur, g), NoCommit, MaxLoops)

LoopResumeAI ==
  /\ ~hung
  /\ aiPending # <<>>
  /\ LET m == Head(aiPending)
     IN  \E g \in Draws(resumeAI(Cur, AnyBatch).batchNo # batchNo) :
           StepWithin("resumeAI", resumeAI(Cur, g),
                      Commit(m.row, m.col, m, m.slot # 0), MaxLoops)

LoopRunTimeline ==
  /\ ~hung
  /\ \E j \in 1 .. Len(timelines) :
       StepWithin("timeline", runTimeline(Cur, j), NoCommit, MaxLoops)

LoopNext ==
  \/ LoopStart
  \/ LoopPause
  \/ LoopContinue
  \/ LoopHomeFromPause
  \/ LoopToggleAI
  \/ LoopResumeAI
  \/ LoopRunTimeline

SpecLoops == Init /\ [][LoopNext]_vars

(***************************************************************************)
(* The legacy engine, src/src/Game.ts: a fourth specification.  It has no  *)
(* phases and no screens: the constructor builds the board and the first   *)
(* batch, and the handlers are the AI button, the drag of a shape, the AI  *)
(* turn that resumes after its waits and the end of a line-clear           *)
(* animation.  It counts the placements of a batch in placedShapesCount    *)
(* and generates a batch when the count reaches 3.  canPlaceShape,         *)
(* hasValidMoves, rotateShape, findBestMove and the cell writes are those  *)
(* of the engine above, line for line; the variables of the phases and the *)
(* screens keep the values LegacyInit gives them.                          *)
(***************************************************************************)
\* gameOver of the legacy engine: the flag and a text.
LegacyGameOver(s) ==
  [s EXCEPT !.isGameOver = TRUE, !.gameOverCalls = @ + 1]

LegacyCheckGameOver(s) ==
  IF ~hasValidMoves(s.board, s.shapes) THEN LegacyGameOver(s) ELSE s

LegacyCheckLines(s) ==
  LET rowsToRemove == FullRows(s.board)
      colsToRemove == FullCols(s.board)
      s1 == IF rowsToRemove # {} \/ colsToRemove # {}
            THEN updateScore(clearLines(s, rowsToRemove, colsToRemove),
                             Cardinality(rowsToRemove) + Cardinality(colsToRemove))
            ELSE s
  IN  IF Len(s1.shapes) = 1 /\ ~hasValidMoves(s1.board, s1.shapes)
      THEN LegacyGameOver(s1)
      ELSE s1

LegacyPlaceShape(s, startRow, startCol, shape) ==
  LegacyCheckLines([s EXCEPT !.board = PlaceBlocks(s.board, startRow, startCol, shape)])

\* generateNewShapes of the legacy engine: whatever the batch holds, it is
\* replaced by three new shapes and the count is set to 0; the suspended AI
\* turns then hold a shape outside the batch.
LegacyGenerateNewShapes(s, g) ==
  IF s.isGameOver THEN s
  ELSE LET s1 == [s EXCEPT !.shapes = [i \in 1 .. 3 |-> NewShape(i, g[i])],
                           !.placedShapesCount = 0,
                           !.batchNo = @ + 1,
                           !.aiPending = [i \in 1 .. Len(@) |->
                                            [@[i] EXCEPT !.slot = 0]]]
       IN  IF ~hasValidMoves(s1.board, s1.shapes) THEN LegacyGameOver(s1) ELSE s1

\* runAI of the legacy engine from its entry to its first await or its
\* return.
RECURSIVE LegacyRunAI(_, _)
LegacyRunAI(s0, g) ==
  LET s == [s0 EXCEPT !.runAICalls = @ + 1] IN
  IF ~s.isAIEnabled \/ s.isGameOver THEN s
  ELSE LET found == SearchMove(s.board, s.shapes)
       IN  IF found.shape # 0 /\ found.move.valid
           THEN LET sh == s.shapes[found.shape]
                IN  [s EXCEPT !.aiPending = Append(@,
                       [ blocks |-> sh.blocks, color |-> sh.color, slot |-> sh.slot,
                         row |-> found.move.row, col |-> found.move.col ])]
           ELSE LegacyRunAI(LegacyGenerateNewShapes(s, g), g)

\* runAI of the legacy engine after its awaits, for the suspended turn at the
\* head: it returns if the AI is off, else it places, counts, removes the
\* shape if the batch still holds it, generates at 3 and calls runAI.
LegacyResumeAI(s, g) ==
  LET m == Head(s.aiPending)
      s1 == [s EXCEPT !.aiPending = Tail(@)]
  IN  IF ~s1.isAIEnabled THEN s1
      ELSE LET s2 == LegacyCheckLines(LegacyPlaceShape(s1, m.row, m.col, m))
               s3 == [s2 EXCEPT !.placedShapesCount = @ + 1]
               s4 == IF m.slot # 0 THEN RemoveShape(s3, m.slot) ELSE s3
               s5 == IF s4.placedShapesCount >= 3
                     THEN LegacyGenerateNewShapes(s4, g)
                     ELSE s4
           IN  LegacyRunAI(s5, g)

\* onDragEnd of the legacy engine with the grid position (row, col) of the
\* dragged container.
LegacyOnDragEnd(s, row, col, g) ==
  LET i == DraggedIndex(s.shapes)
      s1 == [s EXCEPT !.shapes[i].dragging = FALSE]
      draggedShape == s1.shapes[i]
  IN  IF canPlaceShape(s1.board, row, col, draggedShape)
      THEN LET s2 == LegacyPlaceShape(s1, row, col, draggedShape)
               s3 == RemoveShape(s2, draggedShape.slot)
               s4 == LegacyCheckLines(s3)
               s5 == [s4 EXCEPT !.placedShapesCount = @ + 1]
           IN  IF s5.placedShapesCount >= 3
               THEN LegacyGenerateNewShapes(s5, g)
               ELSE s5
      ELSE s1

\* The click handler of the legacy AI button.
LegacyToggleAIButton(s, g) ==
  LET s1 == [s EXCEPT !.isAIEnabled = ~s.isAIEnabled]
  IN  IF s1.isAIEnabled THEN LegacyRunAI(s1, g) ELSE s1

\* The tweens of the clearLines calls of one handler, from the i-th call on:
\* the blocks are cleared, and the last block's callback runs checkGameOver.
RECURSIVE LegacyRunLines(_, _, _)
LegacyRunLines(s, lines, i) ==
  IF i > Len(lines) THEN s
  ELSE LegacyRunLines(
         LegacyCheckGameOver([s EXCEPT !.board = ClearBlocks(@, lines[i], 1)]),
         lines, i + 1)

LegacyRunTweens(s, j) ==
  LET s1 == LegacyRunLines(s, s.timelines[j].lines, 1)
  IN  [s1 EXCEPT !.timelines =
         [k \in 1 .. Len(@) - 1 |-> IF k < j THEN @[k] ELSE @[k + 1]]]

\* The state the constructor leaves: an empty board and the first batch.
LegacyInit ==
  /\ gameBoard = createEmptyBoard
  /\ score = 0
  /\ isGameOver = FALSE
  /\ shapes \in { [i \in 1 .. 3 |-> NewShape(i, g[i])] : g \in Batches }
  /\ placedShapesCount = 0
  /\ previousAIState = FALSE
  /\ isAIEnabled = FALSE
  /\ currentState = "PLAYING"
  /\ startVisible = FALSE
  /\ pauseVisible = FALSE
  /\ uiButtons = TRUE
  /\ gameOverMenu = FALSE
  /\ timelines = <<>>
  /\ aiPending = <<>>
  /\ hung = FALSE
  /\ batchNo = 1
  /\ clicks = 0
  /\ ev = [ op |-> "init",
            committed |-> FALSE, legal |-> FALSE, inBatch |-> FALSE, k |-> 0,
            gameOverCalls |-> 0, ranAI |-> FALSE,
            sincePause |-> "none", afterPause |-> "none" ]

\* The AI button of the legacy engine.
LegacyToggleAI ==
  \E g \in Draws(LegacyToggleAIButton(Cur, AnyBatch).batchNo # batchNo) :
    Step("toggleAI", LegacyToggleAIButton(Cur, g), NoCommit)

\* pointerdown on the container of the i-th shape of the batch.
LegacyDragStart ==
  \E i \in 1 .. Len(shapes) :
    /\ ~isGameOver
    /\ DraggedIndex(shapes) = 0
    /\ Step("dragStart", onDragStart(Cur, i), NoCommit)

\* pointerup on the stage while a shape is dragged.
LegacyDragEnd ==
  /\ DraggedIndex(shapes) # 0
  /\ \E pos \in DropPositions :
       LET row == pos[1]
           col == pos[2]
           sh == shapes[DraggedIndex(shapes)]
       IN  \E g \in Draws(LegacyOnDragEnd(Cur, row, col, AnyBatch).batchNo # batchNo) :
             Step("drop", LegacyOnDragEnd(Cur, row, col, g),
                  IF canPlaceShape(gameBoard, row, col, sh)
                  THEN Commit(row, col, sh, TRUE)
                  ELSE NoCommit)

\* The oldest suspended AI turn of the legacy engine resumes.
LegacyAITurn ==
  /\ aiPending # <<>>
  /\ LET m == Head(aiPending)
     IN  \E g \in Draws(LegacyResumeAI(Cur, AnyBatch).batchNo # batchNo) :
           Step("resumeAI", LegacyResumeAI(Cur, g),
                IF isAIEnabled
                THEN Commit(m.row, m.col, m, m.slot # 0)
                ELSE NoCommit)

\* The tweens of one clearLines group end.
LegacyClearEnds ==
  \E j \in 1 .. Len(timelines) :
    Step("timeline", LegacyRunTweens(Cur, j), NoCommit)

LegacyNext ==
  \/ LegacyToggleAI
  \/ LegacyDragStart
  \/ LegacyDragEnd
  \/ LegacyAITurn
  \/ LegacyClearEnds

SpecLegacy == LegacyInit /\ [][LegacyNext]_vars

(***************************************************************************)
(* The operations one at a time: a second specification, which starts from *)
(* any board and any batch of a bounded family and applies one operation   *)
(* of Game or GameAI to it.                                                *)
(***************************************************************************)
FilledCell == [isEmpty |-> FALSE, color |-> BLOCK_COLORS[1]]

\* Every board of empty and filled cells.
AnyBoards == [Rows -> [Cols -> {EmptyCell, FilledCell}]]

\* Every draw of generateNewShapes for one shape.
AllDraws ==
  (0 .. Len(SHAPES) - 1) \X (0 .. Len(BLOCK_COLORS) - 1) \X (0 .. 3)

\* The batches of one shape: every catalog shape in every rotation.
OneShapeBatches ==
  { <<NewShape(1, <<d[1], 3, d[3]>>)>> : d \in AllDraws }

\* The batches of one, two or three shapes drawn from three small shapes.
SmallDraws == {Single, Upright, Square}
SmallBatches ==
  UNION { { [i \in 1 .. n |-> NewShape(i, g[i])] : g \in [1 .. n -> SmallDraws] } :
          n \in 1 .. 3 }

\* The draws of a batch: any draw for one of the three shapes next to two
\* single blocks, or three draws of small shapes.
DrawBatches ==
  { [i \in 1 .. 3 |-> IF i = j THEN d ELSE Single] : j \in 1 .. 3, d \in AllDraws }
    \cup [1 .. 3 -> SmallDraws]

Input(draw) == [op |-> "input", draw |-> draw]

\* The matrices rotateShape is applied to: the shapes of the catalog and
\* every boolean matrix of up to GRID_SIZE + 1 rows and GRID_SIZE columns.
Matrices ==
  { SHAPES[n] : n \in 1 .. Len(SHAPES) }
    \cup UNION { [1 .. h -> [1 .. w -> BOOLEAN]] :
                 h \in 1 .. GRID_SIZE + 1, w \in 1 .. GRID_SIZE }

\* A game in PLAYING with any board, and either a batch and no draw, or an
\* empty batch and the draws of the next one, or a matrix to rotate.
OpsInit ==
  /\ gameBoard \in AnyBoards
  /\ score = 0
  /\ isGameOver = FALSE
  /\ previousAIState = FALSE
  /\ isAIEnabled = FALSE
  /\ currentState = "PLAYING"
  /\ startVisible = FALSE
  /\ pauseVisible = FALSE
  /\ uiButtons = TRUE
  /\ gameOverMenu = FALSE
  /\ timelines = <<>>
  /\ aiPending = <<>>
  /\ hung = FALSE
  /\ batchNo = 1
  /\ clicks = 0
  /\ placedShapesCount = 0
  /\ \/ shapes \in OneShapeBatches \cup SmallBatches /\ ev = Input(NoBatch)
     \/ /\ shapes = <<>>
        /\ \E g \in DrawBatches :
             /\ ev = Input(g)
             /\ g \in [1 .. 3 -> SmallDraws] \/ gameBoard = createEmptyBoard
     \/ /\ shapes = <<>>
        /\ gameBoard = createEmptyBoard
        /\ \E m \in Matrices : ev = [op |-> "input", draw |-> NoBatch, matrix |-> m]

\* The positions canPlaceShape is asked about: the board and a margin around
\* it.
ProbePositions == (-1 .. GRID_SIZE) \X (-1 .. GRID_SIZE)

\* The operations that write nothing to the game: each can follow the input
\* and the other one, any number of times.
ReadOnlyOps == {"input", "canPlaceShape", "executeMove"}

\* canPlaceShape for the first shape of the batch, at every position.
OpCanPlace ==
  /\ ev.op \in ReadOnlyOps \ {"canPlaceShape"}
  /\ shapes # <<>>
  /\ ev' = [ op |-> "canPlaceShape",
             out |-> [p \in ProbePositions |->
                        canPlaceShape(gameBoard, p[1], p[2], shapes[1])] ]
  /\ UNCHANGED <<gameBoard, score, isGameOver, shapes, previousAIState,
                 isAIEnabled, currentState, startVisible, pauseVisible,
                 uiButtons, gameOverMenu, timelines, aiPending, hung, batchNo,
                 clicks, placedShapesCount>>

\* placeShape for the first shape of the batch, at a position where
\* canPlaceShape holds; wouldClear is the number of lines findBestMove counts
\* for this candidate on its simulated board.
OpPlace ==
  /\ ev.op = "input"
  /\ shapes # <<>>
  /\ \E pos \in Rows \X Cols :
       /\ canPlaceShape(gameBoard, pos[1], pos[2], shapes[1])
       /\ \E s \in {placeShape(Cur, pos[1], pos[2], shapes[1])} :
            /\ Install(s)
            /\ clicks' = clicks
            /\ ev' = Event("placeShape", s,
                           Commit(pos[1], pos[2], shapes[1], TRUE))
                       @@ [row |-> pos[1], col |-> pos[2],
                           wouldClear |->
                             wouldClearLines(simulatePlacement(
                               gameBoard, pos[1], pos[2], shapes[1]))]

\* generateNewShapes on an empty batch, with the draws of the input.
OpGenerate ==
  /\ ev.op = "input"
  /\ shapes = <<>>
  /\ ev.draw # NoBatch
  /\ \E s \in {generateNewShapes(Cur, ev.draw)} :
       /\ Install(s)
       /\ clicks' = clicks
       /\ ev' = Event("generateNewShapes", s, NoCommit) @@ [draw |-> ev.draw]

\* The search of the AI on the board and the batch, up to the choice of
\* executeMove, and hasValidMoves on the same input.
OpSearch ==
  /\ ev.op \in ReadOnlyOps \ {"executeMove"}
  /\ ev' = [ op |-> "executeMove",
             found |-> SearchMove(gameBoard, shapes),
             hasValidMoves |-> hasValidMoves(gameBoard, shapes) ]
  /\ gameBoard' = BoardAfterSearch(gameBoard, shapes, 1)
  /\ UNCHANGED <<score, isGameOver, shapes, previousAIState,
                 isAIEnabled, currentState, startVisible, pauseVisible,
                 uiButtons, gameOverMenu, timelines, aiPending, hung, batchNo,
                 clicks, placedShapesCount>>

\* findBestMove for every shape of the batch: the move it returns, and the
\* score it computes for every position at which canPlaceShape holds.
OpScore ==
  /\ ev.op = "input"
  /\ ev' = [ op |-> "findBestMove",
             moves |-> [i \in 1 .. Len(shapes) |-> findBestMove(gameBoard, shapes[i])],
             scores |-> [x \in { y \in (1 .. Len(shapes)) \X Rows \X Cols :
                                   canPlaceShape(gameBoard, y[2], y[3], shapes[y[1]]) }
                           |-> MoveScore(gameBoard, x[2], x[3], shapes[x[1]])] ]
  /\ UNCHANGED <<gameBoard, score, isGameOver, shapes, previousAIState,
                 isAIEnabled, currentState, startVisible, pauseVisible,
                 uiButtons, gameOverMenu, timelines, aiPending, hung, batchNo,
                 clicks, placedShapesCount>>

\* rotateShape applied to the matrix of the input once, twice, three and
\* four times.
OpRotate ==
  /\ ev.op = "input"
  /\ "matrix" \in DOMAIN ev
  /\ ev' = [ op |-> "rotateShape",
             matrix |-> ev.matrix,
             turns |-> [k \in 1 .. 4 |-> Rotations(ev.matrix, k)] ]
  /\ UNCHANGED <<gameBoard, score, isGameOver, shapes, previousAIState,
                 isAIEnabled, currentState, startVisible, pauseVisible,
                 uiButtons, gameOverMenu, timelines, aiPending, hung, batchNo,
                 clicks, placedShapesCount>>

OpsNext ==
  \/ OpRotate
  \/ OpCanPlace
  \/ OpSearch
  \/ OpScore
  \/ OpPlace
  \/ OpGenerate
  \/ RunTimeline

SpecOps == OpsInit /\ [][OpsNext]_vars

(***************************************************************************)
(* Properties.                                                             *)
(***************************************************************************)
\* The batch as the player sees it: the shapes without their drag flag.
BatchOf(shs) ==
  [i \in 1 .. Len(shs) |->
     [blocks |-> shs[i].blocks, color |-> shs[i].color, slot |-> shs[i].slot]]

\* A step in which a handler places a shape of the batch where canPlaceShape
\* holds, with the game in PLAYING.
SuccessfulPlace ==
  /\ currentState = "PLAYING"
  /\ ~isGameOver
  /\ ev'.committed /\ ev'.legal /\ ev'.inBatch

\* C1: a successful place that makes k lines full raises the score by exactly
\* 100 * k, on the human path (drop) and on the AI path (resumeAI).
C1_ScorePerLine ==
  [][SuccessfulPlace => score' = score + 100 * ev'.k]_vars

\* C2: in PLAYING, a place that leaves a non-empty batch none of whose shapes
\* fits anywhere ends in GAME_OVER within the same handler.  Stated for the
\* placements that complete no line and leave no clear animation running, so
\* the board the handler leaves is the board the batch is judged on.
C2_GameOverInSameCommand ==
  [][(/\ SuccessfulPlace
      /\ ev'.k = 0 /\ timelines' = <<>>
      /\ shapes' # <<>>
      /\ ~hasValidMoves(gameBoard', shapes'))
     => currentState' = "GAME_OVER"]_vars

\* C3: every placement committed while the game is in PLAYING satisfies
\* canPlaceShape on the board of that moment and uses a shape that is in the
\* batch at that moment.
C3_CommitsAreValid ==
  [][(currentState = "PLAYING" /\ ~isGameOver /\ ev'.committed)
     => ev'.legal /\ ev'.inBatch]_vars

\* C4: an AI turn that resumes after its delay with isAIEnabled false writes
\* no cell and removes no shape.
C4_DisabledAICommitsNothing ==
  [][(ev'.op = "resumeAI" /\ ~isAIEnabled)
     => gameBoard' = gameBoard /\ BatchOf(shapes') = BatchOf(shapes)]_vars

\* The place requests: the drop of a dragged shape and the commit of an AI turn.
PlaceRequest == ev'.op \in {"drop", "resumeAI"}

\* No cell that was empty is filled in this step.
NoCellFilled ==
  \A row \in DOMAIN gameBoard : \A col \in DOMAIN gameBoard[row] :
    gameBoard[row][col].isEmpty => gameBoard'[row][col].isEmpty

\* C5: while the phase is PAUSED a place request changes no cell, nor the
\* batch, nor the score.
C5_NoPlacementWhilePaused ==
  [][(currentState = "PAUSED" /\ PlaceRequest)
     => /\ gameBoard' = gameBoard
        /\ BatchOf(shapes') = BatchOf(shapes)
        /\ score' = score]_vars

\* C6: while the phase is GAME_OVER a place request fills no cell and removes
\* no shape from the batch.
C6_GameOverIsTerminal ==
  [][(currentState = "GAME_OVER" /\ PlaceRequest)
     => NoCellFilled /\ BatchOf(shapes') = BatchOf(shapes)]_vars

\* What a rejected command must leave as it was.
Session ==
  <<currentState, gameBoard, BatchOf(shapes), score, isAIEnabled,
    previousAIState>>

\* C7: pause outside PLAYING, resume outside PAUSED and start outside START
\* leave the phase, the board, the batch, the score, isAIEnabled and
\* previousAIState as they were.
C7_OutOfPhaseRejected ==
  [][(\/ ev'.op = "pause" /\ currentState # "PLAYING"
      \/ ev'.op = "continue" /\ currentState # "PAUSED"
      \/ ev'.op = "start" /\ currentState # "START")
     => Session' = Session]_vars

\* The AI turn loop is running: a turn is suspended in executeMove, or runAI
\* re-enters itself.
AILoopRunning == aiPending # <<>> \/ hung

\* The state a continue click leaves when it follows a pause click made in
\* PLAYING with no other click and no drag in between.
ResumedAfterPause == ev.op = "continue" /\ ev.afterPause # "none"

\* C8: a pause click in PLAYING sets isAIEnabled to false and the phase to
\* PAUSED; the continue click that follows it sets the phase to PLAYING and
\* isAIEnabled to the value it had just before the pause, and calls runAI
\* exactly when that value is true; unless the game is over, that call leaves
\* the AI turn loop running.
C8_PauseResumeRoundTrip ==
  [][/\ (ev'.op = "pause" /\ currentState = "PLAYING")
        => (~isAIEnabled' /\ currentState' = "PAUSED"
            /\ ev'.sincePause = (IF isAIEnabled THEN "on" ELSE "off"))
     /\ ResumedAfterPause'
        => (/\ ev.sincePause = ev'.afterPause
            /\ currentState' = "PLAYING"
            /\ isAIEnabled' = (ev'.afterPause = "on")
            /\ ev'.ranAI = (ev'.afterPause = "on")
            /\ (ev'.afterPause = "on" /\ ~isGameOver') => AILoopRunning'
            /\ ev'.afterPause = "off" => aiPending' = aiPending /\ ~hung')]_vars

\* A continue click has restored isAIEnabled to true and restarted the AI turn
\* loop, which has computed a move and waits.
C8_Witness ==
  /\ ResumedAfterPause
  /\ ev.afterPause = "on"
  /\ isAIEnabled
  /\ currentState = "PLAYING"
  /\ aiPending # <<>>

\* Every cell of the board is empty.
BoardEmpty ==
  \A row \in DOMAIN gameBoard : \A col \in DOMAIN gameBoard[row] :
    gameBoard[row][col].isEmpty

\* C9: after a reset the phase is START, the score 0, the batch empty,
\* isAIEnabled false and every board cell empty.
C9_ResetClearsSession ==
  ev.op = "home"
  => /\ currentState = "START"
     /\ score = 0
     /\ shapes = <<>>
     /\ ~isAIEnabled
     /\ BoardEmpty

\* C10: a start in START leaves PLAYING, a GRID_SIZE x GRID_SIZE board with
\* every cell empty, score 0 and a newly generated batch of exactly 3 shapes.
C10_StartInitializes ==
  [][(ev'.op = "start" /\ currentState = "START")
     => /\ currentState' = "PLAYING"
        /\ DOMAIN gameBoard' = Rows
        /\ \A row \in Rows : DOMAIN gameBoard'[row] = Cols
        /\ BoardEmpty'
        /\ score' = 0
        /\ Len(shapes') = 3
        /\ batchNo' = batchNo + 1]_vars

\* A place request whose target position fails canPlaceShape: a drop that
\* onDragEnd does not place, or an AI commit on a position that no longer
\* passes canPlaceShape.
FailedPlaceRequest ==
  \/ ev'.op = "drop" /\ ~ev'.committed
  \/ ev'.op = "resumeAI" /\ ~ev'.legal

\* The board, the batch, the score and the phase are as before the step.
NothingPlaced ==
  /\ gameBoard' = gameBoard
  /\ BatchOf(shapes') = BatchOf(shapes)
  /\ score' = score
  /\ currentState' = currentState

\* C11: a place request whose target position fails canPlaceShape changes
\* neither the board, nor the batch, nor the score, nor the phase.
C11_FailedPlaceRejected ==
  [][FailedPlaceRequest => NothingPlaced]_vars

\* C11, on the human path alone: a drop at a position that fails
\* canPlaceShape changes nothing.
C11_FailedDropRejected ==
  [][(ev'.op = "drop" /\ ~ev'.committed) => NothingPlaced]_vars

\* The true cells of a shape matrix, as (row, column) offsets from 0.
TrueCells(blocks) ==
  { rc \in (0 .. Len(blocks) - 1) \X (0 .. Len(blocks[1]) - 1) :
      blocks[rc[1] + 1][rc[2] + 1] }

FilledCells(board) ==
  { p \in Rows \X Cols : ~board[p[1]][p[2]].isEmpty }

\* C13: right after placeShape's writes at a position where canPlaceShape
\* holds, the number of filled cells is the previous number plus the number
\* of true cells of the shape; the cells under the true cells hold the
\* shape's colour and no other cell has changed.
C13_PlaceFillsShapeCells ==
  [][ev'.op = "placeShape"
     => LET under == { <<ev'.row + rc[1], ev'.col + rc[2]>> :
                        rc \in TrueCells(shapes[1].blocks) }
        IN  /\ Cardinality(FilledCells(gameBoard'))
                 = Cardinality(FilledCells(gameBoard))
                   + Cardinality(TrueCells(shapes[1].blocks))
            /\ \A p \in Rows \X Cols :
                 gameBoard'[p[1]][p[2]] =
                   IF p \in under
                   THEN [isEmpty |-> FALSE, color |-> shapes[1].color]
                   ELSE gameBoard[p[1]][p[2]]]_vars

\* placeShape has placed a shape of two cells or more on a board that held
\* filled cells of another colour, which it still holds.
C13_Witness ==
  /\ ev.op = "placeShape"
  /\ Cardinality(TrueCells(shapes[1].blocks)) >= 2
  /\ \E p \in FilledCells(gameBoard) :
       gameBoard[p[1]][p[2]].color = shapes[1].color
  /\ \E p \in FilledCells(gameBoard) :
       gameBoard[p[1]][p[2]].color # shapes[1].color

\* The cells of the rows and columns of a board that are filled from end to
\* end.
FullLineCells(board) ==
  { p \in Rows \X Cols :
      \/ \A c \in Cols : ~board[p[1]][c].isEmpty
      \/ \A r \in Rows : ~board[r][p[2]].isEmpty }

PendingCells ==
  UNION { UNION { { timelines[j].lines[i][n] : n \in 1 .. Len(timelines[j].lines[i]) } :
                  i \in 1 .. Len(timelines[j].lines) } :
          j \in { x \in 1 .. Len(timelines) : ~timelines[x].stale } }

\* C15: the clear triggered by a placement that completed a line always
\* completes, whatever is placed in the meantime: a state in which a clear is
\* scheduled is never one in which runAI holds the event loop for good, so
\* that the timeline can run and empty the line.
C15_ClearAlwaysCompletes ==
  timelines # <<>> => ~hung

\* Once a scheduled clear has run on the board it was scheduled for, the
\* cells of its lines are empty with colour 0.
C15_ClearedLineIsEmpty ==
  [][ev'.op = "timeline"
     => \A p \in PendingCells : gameBoard'[p[1]][p[2]] = EmptyCell]_vars

\* b is the matrix a turned clockwise by a quarter: b has the rows of a as
\* columns, the first row of a as the last column.
IsQuarterTurn(a, b) ==
  /\ Len(b) = Len(a[1])
  /\ \A c \in 1 .. Len(b) : Len(b[c]) = Len(a)
  /\ \A r \in 1 .. Len(a) : \A c \in 1 .. Len(a[1]) :
       b[c][Len(a) + 1 - r] = a[r][c]

\* b is a turned clockwise k times.
RECURSIVE IsTurned(_, _, _)
IsTurned(a, b, k) ==
  IF k = 0 THEN a = b
  ELSE \E m \in [1 .. Len(a[1]) -> [1 .. Len(a) -> BOOLEAN]] :
         IsQuarterTurn(a, m) /\ IsTurned(m, b, k - 1)

\* C16: a generated batch holds exactly 3 shapes; each is a shape of the
\* catalog turned clockwise 0 to 3 times (the shape and the number of turns
\* that were drawn), its width and height are the dimensions of the turned
\* matrix, and its colour is the palette colour that was drawn.
C16_BatchOfThreeCatalogShapes ==
  ev.op = "generateNewShapes"
  => /\ Len(shapes) = 3
     /\ \A i \in 1 .. 3 :
          /\ ev.draw[i][1] + 1 \in 1 .. Len(SHAPES)
          /\ ev.draw[i][3] \in 0 .. 3
          /\ IsTurned(SHAPES[ev.draw[i][1] + 1], shapes[i].blocks, ev.draw[i][3])
          /\ shapes[i].height = Len(shapes[i].blocks)
          /\ \A r \in 1 .. Len(shapes[i].blocks) :
               shapes[i].width = Len(shapes[i].blocks[r])
          /\ \E n \in 1 .. Len(BLOCK_COLORS) :
               /\ n = ev.draw[i][2] + 1
               /\ shapes[i].color = BLOCK_COLORS[n]

\* A batch was generated with a shape of the catalog that is not symmetric,
\* turned three times, its matrix being wider than high.
C16_Witness ==
  /\ ev.op = "generateNewShapes"
  /\ \E i \in 1 .. 3 :
       /\ ev.draw[i][3] = 3
       /\ shapes[i].width > shapes[i].height
       /\ \E r \in 1 .. shapes[i].height : \E c \in 1 .. shapes[i].width :
            ~shapes[i].blocks[r][c]
       /\ shapes[i].blocks # SHAPES[ev.draw[i][1] + 1]

\* The matrix can be put on the board with its top left corner at p: inside
\* the board, no true cell on a filled cell.
Fits(board, blocks, p) ==
  /\ p[1] + Len(blocks) <= GRID_SIZE
  /\ p[2] + Len(blocks[1]) <= GRID_SIZE
  /\ \A rc \in TrueCells(blocks) : board[p[1] + rc[1]][p[2] + rc[2]].isEmpty

\* Some shape of the batch can be put somewhere on the board.
SomeShapeFits ==
  \E i \in 1 .. Len(shapes) : \E p \in Rows \X Cols :
    Fits(gameBoard, shapes[i].blocks, p)

\* C18: right after a generation, if no shape of the new batch fits anywhere
\* on the board the phase is GAME_OVER, reached by the generation itself; if
\* some shape fits the phase is still PLAYING.
C18_GameOverOnGeneration ==
  ev.op = "generateNewShapes"
  => /\ ~SomeShapeFits
          => (currentState = "GAME_OVER" /\ isGameOver /\ ev.gameOverCalls = 1)
     /\ SomeShapeFits
          => (currentState = "PLAYING" /\ ~isGameOver /\ ev.gameOverCalls = 0)

\* A generation ended the game on a board that still has an empty cell.
C18_Witness ==
  /\ ev.op = "generateNewShapes"
  /\ currentState = "GAME_OVER"
  /\ Len(shapes) = 3
  /\ FilledCells(gameBoard) # Rows \X Cols

\* The batch after the step is the batch before it without some of its
\* shapes, the others in their order.
OnlyRemoves ==
  BatchOf(shapes') =
    SelectSeq(BatchOf(shapes),
              LAMBDA x : \E i \in 1 .. Len(shapes') : shapes'[i].slot = x.slot)

MoveFits(i, move) ==
  /\ move.row \in Rows
  /\ move.col \in Cols
  /\ Fits(gameBoard, shapes[i].blocks, <<move.row, move.col>>)

\* C19: every move the search yields can be placed on the board the search
\* read: the move findBestMove returns for a shape, and the move executeMove
\* chooses, whose shape is a shape of the batch it was given.
C19_AIMoveIsPlaceable ==
  /\ ev.op = "findBestMove"
       => \A i \in 1 .. Len(shapes) :
            ev.moves[i].valid => MoveFits(i, ev.moves[i])
  /\ (ev.op = "executeMove" /\ ev.found.shape # 0 /\ ev.found.move.valid)
       => /\ ev.found.shape \in 1 .. Len(shapes)
          /\ MoveFits(ev.found.shape, ev.found.move)

\* The search has chosen a move on a board with filled cells, for a batch in
\* which another shape fits nowhere.
C19_Witness ==
  /\ ev.op = "executeMove"
  /\ ev.found.shape # 0
  /\ ev.found.move.valid
  /\ FilledCells(gameBoard) # {}
  /\ \E i \in 1 .. Len(shapes) :
       \A p \in Rows \X Cols : ~Fits(gameBoard, shapes[i].blocks, p)

\* C20: the search returns no move exactly when no shape of the batch has a
\* valid placement, which is when hasValidMoves is false on the same board
\* and batch.  findBestMove returns its sentinel (row -1, col -1, no score)
\* for a shape exactly when the shape fits nowhere, and executeMove finds
\* nothing to place exactly when no shape fits anywhere.
C20_NoMoveIffNoValidMoves ==
  /\ ev.op = "findBestMove"
       => \A i \in 1 .. Len(shapes) :
            /\ ~ev.moves[i].valid
                 <=> ~\E p \in Rows \X Cols : Fits(gameBoard, shapes[i].blocks, p)
            /\ ~ev.moves[i].valid
                 => (ev.moves[i].row = -1 /\ ev.moves[i].col = -1)
  /\ ev.op = "executeMove"
       => /\ (ev.found.shape = 0 \/ ~ev.found.move.valid) <=> ~SomeShapeFits
          /\ (ev.found.shape = 0 \/ ~ev.found.move.valid) <=> ~ev.hasValidMoves

\* The search has returned no move for a batch of three shapes on a board
\* that is not full.
C20_Witness ==
  /\ ev.op = "executeMove"
  /\ ev.found.shape = 0
  /\ Len(shapes) = 3
  /\ FilledCells(gameBoard) # Rows \X Cols

\* The candidates of the search: shape index, row and column of every
\* placement that fits, and the score findBestMove gives to one.
Candidates ==
  { x \in (1 .. Len(shapes)) \X Rows \X Cols :
      Fits(gameBoard, shapes[x[1]].blocks, <<x[2], x[3]>>) }

CandidateScore(x) == MoveScore(gameBoard, x[2], x[3], shapes[x[1]])

\* x comes before y in scan order: shapes in batch order, then rows, then
\* columns.
ScannedBefore(x, y) ==
  \/ x[1] < y[1]
  \/ x[1] = y[1] /\ x[2] < y[2]
  \/ x[1] = y[1] /\ x[2] = y[2] /\ x[3] < y[3]

\* The move executeMove has chosen, as a candidate.
Chosen == <<ev.found.shape, ev.found.move.row, ev.found.move.col>>

\* C21: the move the AI chooses is a candidate of greatest score, and the
\* first one in scan order among the candidates of that score.
C21_BestScoreFirstInScanOrder ==
  (ev.op = "executeMove" /\ ev.found.shape # 0)
  => /\ Chosen \in Candidates
     /\ ev.found.move.score = CandidateScore(Chosen)
     /\ LET best == CandidateScore(Chosen)
        IN  \A x \in Candidates :
              LET sc == CandidateScore(x)
              IN  \/ sc < best
                  \/ /\ sc = best
                     /\ x = Chosen \/ ScannedBefore(Chosen, x)

\* The search has chosen a candidate that ties at the greatest score with a
\* candidate of another shape, and a candidate of lower score was scanned
\* before the chosen one.
C21_Witness ==
  /\ ev.op = "executeMove"
  /\ ev.found.shape # 0
  /\ \E x \in Candidates :
       x[1] # Chosen[1] /\ CandidateScore(x) = CandidateScore(Chosen)
  /\ \E x \in Candidates :
       ScannedBefore(x, Chosen) /\ CandidateScore(x) < CandidateScore(Chosen)

\* The cells a candidate fills, and the filled cells of the board with the
\* candidate placed.
PlacedCells(x) ==
  { <<x[2] + rc[1], x[3] + rc[2]>> : rc \in TrueCells(shapes[x[1]].blocks) }

SimulatedCells(x) == FilledCells(gameBoard) \cup PlacedCells(x)

\* L: the full rows plus the full columns of the simulated board.
LinesOf(x) ==
  LET sim == SimulatedCells(x)
  IN  Cardinality({ r \in Rows : \A c \in Cols : <<r, c>> \in sim })
      + Cardinality({ c \in Cols : \A r \in Rows : <<r, c>> \in sim })

\* G: the empty cells of the simulated board that follow a filled cell in
\* their row, plus those that follow a filled cell in their column.
GapsOf(x) ==
  LET sim == SimulatedCells(x)
  IN  Cardinality({ p \in Rows \X Cols :
         p \notin sim /\ <<p[1], p[2] - 1>> \in sim })
      + Cardinality({ p \in Rows \X Cols :
         p \notin sim /\ <<p[1] - 1, p[2]>> \in sim })

\* A: the pairs of a placed cell and a neighbour that is filled on the board.
AdjacentOf(x) ==
  LET filled == FilledCells(gameBoard)
  IN  Cardinality({ pd \in PlacedCells(x) \X Directions :
         <<pd[1][1] + pd[2][1], pd[1][2] + pd[2][2]>> \in filled })

\* E: the pairs of a placed cell and a neighbour outside the board.
EdgesOf(x) ==
  Cardinality({ pd \in PlacedCells(x) \X Directions :
     <<pd[1][1] + pd[2][1], pd[1][2] + pd[2][2]>> \notin Rows \X Cols })

\* C22: the score of every valid candidate is
\* 1000*L + (2000 if L > 0) - 50*G + 100*A - 30*E + 20*(N - row).
C22_ScoreFormula ==
  ev.op = "findBestMove"
  => /\ DOMAIN ev.scores = Candidates
     /\ \A x \in Candidates :
          ev.scores[x] = 1000 * LinesOf(x)
                         + (IF LinesOf(x) > 0 THEN 2000 ELSE 0)
                         - 50 * GapsOf(x)
                         + 100 * AdjacentOf(x)
                         - 30 * EdgesOf(x)
                         + 20 * (GRID_SIZE - x[2])

\* A candidate was scored for which every term of the score counts: it
\* completes a line, leaves gaps, touches a filled cell and touches the edge,
\* in a row other than the first.
C22_Witness ==
  /\ ev.op = "findBestMove"
  /\ \E x \in Candidates :
       /\ LinesOf(x) > 0
       /\ GapsOf(x) > 0
       /\ AdjacentOf(x) > 0
       /\ EdgesOf(x) > 0
       /\ x[2] > 0

\* The shapes of the batch with a placement that completes two lines or more
\* at once, and those with no placement that completes a line.
TwoLineShapes == { x[1] : x \in { y \in Candidates : LinesOf(y) >= 2 } }
NoLineShapes ==
  (1 .. Len(shapes)) \ { x[1] : x \in { y \in Candidates : LinesOf(y) > 0 } }

C25_AILoopEnds ==
  ~hung

\* C26: rotateShape turns a matrix of h rows and w columns into the matrix of
\* w rows and h columns with rotated[c][h-1-r] = shape[r][c], and four
\* applications give the matrix it started from.
C26_RotateQuarterTurn ==
  ev.op = "rotateShape"
  => /\ IsQuarterTurn(ev.matrix, ev.turns[1])
     /\ \A k \in 1 .. 3 : IsQuarterTurn(ev.turns[k], ev.turns[k + 1])
     /\ ev.turns[4] = ev.matrix

\* rotateShape has turned a matrix that is not square and that no turn but
\* the fourth gives back.
C26_Witness ==
  /\ ev.op = "rotateShape"
  /\ Len(ev.matrix) # Len(ev.matrix[1])
  /\ \A k \in 1 .. 3 : ev.turns[k] # ev.matrix
  /\ ev.turns[4] = ev.matrix
  /\ \E r \in 1 .. Len(ev.matrix) : \E c \in 1 .. Len(ev.matrix[1]) :
       ~ev.matrix[r][c]

\* The colours of the palette.
PaletteColors == { BLOCK_COLORS[n] : n \in 1 .. Len(BLOCK_COLORS) }

\* C27: every cell of the board is either empty with colour 0 or filled with
\* a colour of the palette, and no colour of the palette is 0.
C27_CellFieldsConsistent ==
  /\ 0 \notin PaletteColors
  /\ \A r \in DOMAIN gameBoard : \A c \in DOMAIN gameBoard[r] :
       \/ gameBoard[r][c].isEmpty /\ gameBoard[r][c].color = 0
       \/ /\ ~gameBoard[r][c].isEmpty
          /\ gameBoard[r][c].color # 0
          /\ gameBoard[r][c].color \in PaletteColors

\* In the first game, shapes were placed and the clear of the lines they
\* completed has emptied their cells.
C27_Witness ==
  /\ ev.op = "timeline"
  /\ batchNo = 1
  /\ score > 0
  /\ Len(shapes) < 3
  /\ DOMAIN gameBoard = Rows
  /\ FilledCells(gameBoard) = {}

\* C28: the batch never holds more than 3 shapes, and in every state in
\* which the phase is PLAYING it holds 1, 2 or 3 shapes (a state of the
\* model is a state between two handlers: no command is executing).
C28_BatchSize ==
  /\ Len(shapes) <= 3
  /\ currentState = "PLAYING" => Len(shapes) \in 1 .. 3

\* The batch never holds more than 3 shapes.
C28_AtMostThreeShapes ==
  Len(shapes) <= 3

\* The slot of the shape a step places: the dragged shape of a drop, the
\* shape of the AI turn that resumes.
PlacedSlot ==
  IF ev'.op = "drop"
  THEN shapes[DraggedIndex(shapes)].slot
  ELSE Head(aiPending).slot

\* What a placement does to the batch: when the step generates no batch, the
\* batch after it is the batch before it without the placed shape, the
\* others unchanged and in their order; when it generates one, the placed
\* shape was the only shape of the batch.
ConsumesPlacedShape ==
  IF batchNo' = batchNo
  THEN /\ Len(shapes') = Len(shapes) - 1
       /\ BatchOf(shapes') =
            SelectSeq(BatchOf(shapes), LAMBDA x : x.slot # PlacedSlot)
  ELSE /\ Len(shapes) = 1
       /\ shapes[1].slot = PlacedSlot

\* C29: every placement committed to the board in phase PLAYING, by the
\* player's drop or by the AI's turn, takes exactly the placed shape out of
\* the batch, so that the batch loses one shape per committed placement.
C29_CommitConsumesPlacedShape ==
  [][(/\ currentState = "PLAYING" /\ ~isGameOver
      /\ ev'.committed /\ ev'.op \in {"drop", "resumeAI"})
     => ConsumesPlacedShape]_vars

\* The part of C29 that holds: a placement in phase PLAYING of a shape of
\* the batch on cells that are free takes exactly that shape out of the
\* batch, on the player's path and on the AI's.
C29_SuccessfulPlaceConsumesShape ==
  [][SuccessfulPlace => ConsumesPlacedShape]_vars

\* The AI has placed a shape of the first batch that is not the first of
\* the batch, and the two others are left.
C29_Witness ==
  /\ ev.op = "resumeAI"
  /\ ev.committed /\ ev.legal /\ ev.inBatch
  /\ currentState = "PLAYING"
  /\ batchNo = 1
  /\ Len(shapes) = 2
  /\ shapes[1].slot = 1

\* The matrices of the catalog.
CatalogShapes == { SHAPES[n] : n \in 1 .. Len(SHAPES) }

\* A matrix has at least one row, and its rows have one length, at least 1.
Rectangular(m) ==
  /\ Len(m) >= 1
  /\ Len(m[1]) >= 1
  /\ \A r \in 1 .. Len(m) : Len(m[r]) = Len(m[1])

\* A matrix is rectangular, has a true cell, and has a true cell in its
\* first row, its last row, its first column and its last column.
Canonical(m) ==
  /\ Rectangular(m)
  /\ TrueCells(m) # {}
  /\ \E c \in 1 .. Len(m[1]) : m[1][c]
  /\ \E c \in 1 .. Len(m[1]) : m[Len(m)][c]
  /\ \E r \in 1 .. Len(m) : m[r][1]
  /\ \E r \in 1 .. Len(m) : m[r][Len(m[1])]

\* C30: every shape of the catalog and each of its rotations is rectangular,
\* has a true cell and has no all-false first or last row or column, and so
\* is every matrix in the batch; a rotation keeps the number of true cells
\* of any matrix and swaps its height and its width.
C30_ShapesCanonical ==
  /\ \A i \in 1 .. Len(shapes) : Canonical(shapes[i].blocks)
  /\ ev.op = "rotateShape"
     => LET turn == [k \in 0 .. 4 |-> IF k = 0 THEN ev.matrix ELSE ev.turns[k]]
        IN  /\ ev.matrix \in CatalogShapes
               => \A k \in 0 .. 4 : Canonical(turn[k])
            /\ \A k \in 0 .. 3 :
                 /\ Cardinality(TrueCells(turn[k + 1]))
                      = Cardinality(TrueCells(turn[k]))
                 /\ Len(turn[k + 1]) = Len(turn[k][1])
                 /\ Len(turn[k + 1][1]) = Len(turn[k])

\* rotateShape has turned a shape of the catalog of three rows and two
\* columns with four true cells and two false ones.
C30_Witness ==
  /\ ev.op = "rotateShape"
  /\ ev.matrix \in CatalogShapes
  /\ Len(ev.matrix) = 3
  /\ Len(ev.matrix[1]) = 2
  /\ Cardinality(TrueCells(ev.matrix)) = 4
  /\ Len(ev.turns[1]) = 2
  /\ Len(ev.turns[1][1]) = 3

\* C31: at most one AI turn is suspended at any time.
C31_OneAITurnInFlight ==
  Len(aiPending) <= 1

\* The board with every full row and every full column emptied.
ClearedBoard(board) ==
  [r \in Rows |-> [c \in Cols |->
     IF r \in FullRows(board) \/ c \in FullCols(board)
     THEN EmptyCell
     ELSE board[r][c]]]

\* A step that takes the phase to GAME_OVER.
EntersGameOver ==
  currentState # "GAME_OVER" /\ currentState' = "GAME_OVER"

\* C32: a placement in PLAYING of a shape of the batch on free cells takes
\* the phase to GAME_OVER only when, on the board the handler leaves with
\* its full lines emptied, no shape of the batch the handler leaves fits
\* anywhere.
C32_GameOverOnlyWithoutMoves ==
  [][(SuccessfulPlace /\ EntersGameOver)
     => \A i \in 1 .. Len(shapes') : \A row \in Rows : \A col \in Cols :
          ~canPlaceShape(ClearedBoard(gameBoard'), row, col, shapes'[i])]_vars

\* C33: a step takes the phase to GAME_OVER only from PLAYING.
C33_GameOverOnlyFromPlaying ==
  [][EntersGameOver => currentState = "PLAYING"]_vars

\* C34: isGameOver is true exactly when the phase is GAME_OVER.
C34_GameOverIndicatorsAgree ==
  isGameOver <=> currentState = "GAME_OVER"

\* C35: once gameOver has run and until a reset, no step changes the score.
C35_ScoreFrozenAfterGameOver ==
  [][(isGameOver /\ currentState = "GAME_OVER" /\ ev'.op # "home")
     => score' = score]_vars

\* C36: gameOver is executed at most once between a start and the next
\* reset: while the phase is PLAYING or GAME_OVER a handler calls it at most
\* once, and no handler calls it when it has run since the last reset.
C36_GameOverAtMostOncePerGame ==
  [][(currentState \in {"PLAYING", "GAME_OVER"} /\ ev'.op # "home")
     => /\ ev'.gameOverCalls <= 1
        /\ isGameOver => ev'.gameOverCalls = 0]_vars

\* C37: when no line-clear animation is running, no row and no column of
\* the board is full.
C37_NoFullLineAtRest ==
  (timelines = <<>> /\ gameBoard # <<>>)
  => FullRows(gameBoard) = {} /\ FullCols(gameBoard) = {}

\* The square has filled the board, the four lines have been cleared, and
\* the game goes on at rest on an empty board.
C37_Witness ==
  /\ ev.op = "timeline"
  /\ timelines = <<>>
  /\ currentState = "PLAYING"
  /\ ~isGameOver
  /\ score = 800
  /\ gameBoard = createEmptyBoard

\* C38: for a placement where canPlaceShape holds, the number of lines
\* findBestMove counts on its simulated board is the number of full rows
\* and columns checkLines finds right after placeShape's writes: the number
\* of lines it hands to clearLines and scores.
C38_SimulationAgreesWithEngine ==
  [][ev'.op = "placeShape"
     => /\ score' = score + 100 * ev'.wouldClear
        /\ ev'.wouldClear = Cardinality(FullRows(gameBoard'))
                              + Cardinality(FullCols(gameBoard'))
        /\ ev'.wouldClear > 0
           => /\ Len(timelines') = 1
              /\ Len(timelines'[1].lines) = 1
              /\ { timelines'[1].lines[1][n] :
                     n \in 1 .. Len(timelines'[1].lines[1]) }
                   = FullLineCells(gameBoard')]_vars

\* A shape has been placed where it completes a row and a column and leaves
\* a cell of the board empty.
C38_Witness ==
  /\ ev.op = "placeShape"
  /\ ev.wouldClear = 2
  /\ score = 200
  /\ FilledCells(gameBoard) # Rows \X Cols

\* C39: while the phase is START the batch is empty, the score is 0 and the
\* AI is off.
C39_StartIsPristine ==
  currentState = "START"
  => shapes = <<>> /\ score = 0 /\ ~isAIEnabled

\* C40: in the legacy engine, while the game is not over, the number of
\* shapes in the batch plus placedShapesCount is 3.
C40_CounterAndBatchInStep ==
  ~isGameOver => Len(shapes) + placedShapesCount = 3

====
